---- MODULE Spec2Model ----
(***************************************************************************)
(* Chess Mentor Hub backend (server.py): the assessment scoring engine     *)
(* (calculate_section_score, analyze_assessment), the assessment routes    *)
(* over the db.assessments collection and coach registration over the      *)
(* db.coaches collection.                                                  *)
(*                                                                         *)
(* Numbers.  Python's "/" is true division.  Scores are modelled as exact  *)
(* rationals [n |-> numerator, d |-> denominator > 0] in lowest terms, so  *)
(* equality of two scores is equality of records.  Integer-typed fields    *)
(* are Int; the float-typed field sleep_before_games is a rational.        *)
(* A float result differs from the rational one only by rounding of values *)
(* that are no binary fractions (10/6, 10/12, x/7, x/3); the values the    *)
(* properties below compare with ==, <= 3 and >= 8 (1, 3, 8, 10 and the    *)
(* half-integers) are computed exactly in both.                            *)
(***************************************************************************)
EXTENDS Integers, Sequences, FiniteSets, TLC

VARIABLES
    section_type,   \* argument of calculate_section_score
    section_data,   \* argument of calculate_section_score (a dict)
    score,          \* <<>> before the call, <<result>> after it
    assessment,     \* argument of analyze_assessment (a dict of sub-dicts)
    analysis,       \* <<>> before the call, <<result dict>> after it
    assessments,    \* db.assessments: the stored documents, in insertion order
    insert_result,  \* what the last insert_one of create_assessment reported
    response,       \* the last HTTP response of an assessment route
    clock,          \* ticks of datetime.now(timezone.utc); also numbers the uuid4() values
    coaches,        \* db.coaches: the stored documents, in insertion order
    reg             \* the register_coach requests and where each one stands

vars == <<section_type, section_data, score, assessment, analysis, assessments,
          insert_result, response, clock, coaches, reg>>

scoreVars == <<section_type, section_data, score>>
analyzeVars == <<assessment, analysis>>
storeVars == <<assessments, insert_result, response>>
coachVars == <<coaches, reg>>

-----------------------------------------------------------------------------
(* Bounds of the model. *)

\* How many steps above a saturating threshold the sampled inputs go.
MaxOver == 1
\* How many create_assessment calls are made.
MaxStore == 3
\* How many register_coach requests are in flight at once.
MaxRequests == 2

-----------------------------------------------------------------------------
(* Exact rational arithmetic for Python's numeric operators. *)

Abs(i) == IF i < 0 THEN -i ELSE i

RECURSIVE GCD(_, _)
GCD(a, b) == IF b = 0 THEN a ELSE GCD(b, a % b)

\* The rational num/den (den > 0) in lowest terms.
Rat(num, den) ==
    LET g == GCD(Abs(num), den)
    IN  [n |-> num \div g, d |-> den \div g]

FromInt(i) == [n |-> i, d |-> 1]

\* x + y
RAdd(x, y) == Rat(x.n * y.d + y.n * x.d, x.d * y.d)
\* x / k for a positive integer k
RDiv(x, k) == Rat(x.n, x.d * k)
\* x * k for an integer k
RMul(x, k) == Rat(x.n * k, x.d)
\* x <= y, x < y
RLe(x, y) == x.n * y.d <= y.n * x.d
RLt(x, y) == x.n * y.d < y.n * x.d
\* min(x, y): Python returns the first argument unless the second is smaller
RMin(x, y) == IF RLt(y, x) THEN y ELSE x

\* sum(scores) for a list of rationals, left to right from 0
RECURSIVE RSum(_)
RSum(seq) ==
    IF seq = <<>> THEN FromInt(0)
    ELSE RAdd(RSum(SubSeq(seq, 1, Len(seq) - 1)), seq[Len(seq)])

\* sum(xs) / len(xs) if xs else 1.0
MeanOrDefault(xs) ==
    IF Len(xs) > 0 THEN RDiv(RSum(xs), Len(xs)) ELSE FromInt(1)

-----------------------------------------------------------------------------
(* The assessment models: field names and declared defaults. *)

sections == <<"opening", "middlegame", "endgame", "psychology", "study_habits", "general">>

SectionNames == {sections[i] : i \in 1..Len(sections)}

\* The numeric fields calculate_section_score reads, per section.
RatingFields(section) ==
    CASE section = "opening"      -> {}
      [] section = "middlegame"   -> {"calculation_ability", "tactical_vision"}
      [] section = "endgame"      -> {"endgame_calculation", "theoretical_knowledge",
                                      "pawn_endgames", "rook_endgames", "bishop_endgames",
                                      "knight_endgames", "queen_endgames"}
      [] section = "psychology"   -> {"confidence_level", "motivation_level"}
      [] section = "study_habits" -> {"study_consistency"}
      [] section = "general"      -> {"physical_stamina"}
      [] OTHER                    -> {}

\* The differently-scaled field of a section, if it has one.
ScaledFields(section) ==
    CASE section = "opening"      -> {"preparation_depth"}
      [] section = "psychology"   -> {"focus_duration"}
      [] section = "study_habits" -> {"daily_study_time"}
      [] section = "general"      -> {"sleep_before_games"}
      [] OTHER                    -> {}

\* A numeric field of the models that the score does not read.
StudyTimeFields(section) ==
    CASE section = "opening"    -> {"opening_study_time"}
      [] section = "middlegame" -> {"middlegame_study_time"}
      [] section = "endgame"    -> {"endgame_study_time"}
      [] OTHER                  -> {}

\* The default each model class declares for a numeric field.
DeclaredDefault(field) ==
    CASE field = "preparation_depth"  -> 1
      [] field = "focus_duration"     -> 10
      [] field = "daily_study_time"   -> 10
      [] field = "sleep_before_games" -> FromInt(8)
      [] field \in {"opening_study_time", "middlegame_study_time",
                    "endgame_study_time"} -> 0
      [] OTHER                        -> 1

-----------------------------------------------------------------------------
(* calculate_section_score *)

\* A slip that passes 1 as every default.
GetDefaultAllOnes(field) ==
    IF field = "sleep_before_games" THEN FromInt(1) ELSE 1

\* The default that the calculator's dict.get passes for a field.
GetDefault(field) ==
    CASE field = "focus_duration"     -> 10
      [] field = "daily_study_time"   -> 10
      [] field = "sleep_before_games" -> FromInt(8)
      [] OTHER                        -> 1

\* section_data.get(field, default)
Get(data, field) ==
    IF field \in DOMAIN data THEN data[field] ELSE GetDefault(field)

\* The divisor that maps a differently-scaled field onto the 10-point scale.
FullScale(field) ==
    CASE field = "preparation_depth"  -> 20
      [] field = "focus_duration"     -> 60
      [] field = "daily_study_time"   -> 120
      [] field = "sleep_before_games" -> 8

\* A slip that forgets the "* 10".
ScaledNoTimesTen(value, full) == RDiv(value, full)

\* value / full * 10, without a clamp (opening)
Scaled(value, full) == RMul(RDiv(value, full), 10)

\* A slip that forgets the clamp.
NormalizedNoClamp(value, full) == Scaled(value, full)

\* min(value / full * 10, 10)
Normalized(value, full) == RMin(Scaled(value, full), FromInt(10))

\* The list `scores` that calculate_section_score builds.
Scores(data, type) ==
    CASE type = "opening" ->
            << Scaled(FromInt(Get(data, "preparation_depth")), FullScale("preparation_depth")) >>
      [] type = "middlegame" ->
            << FromInt(Get(data, "calculation_ability")),
               FromInt(Get(data, "tactical_vision")) >>
      [] type = "endgame" ->
            << FromInt(Get(data, "endgame_calculation")),
               FromInt(Get(data, "theoretical_knowledge")),
               FromInt(Get(data, "pawn_endgames")),
               FromInt(Get(data, "rook_endgames")),
               FromInt(Get(data, "bishop_endgames")),
               FromInt(Get(data, "knight_endgames")),
               FromInt(Get(data, "queen_endgames")) >>
      [] type = "psychology" ->
            << FromInt(Get(data, "confidence_level")),
               FromInt(Get(data, "motivation_level")),
               Normalized(FromInt(Get(data, "focus_duration")), FullScale("focus_duration")) >>
      [] type = "study_habits" ->
            << FromInt(Get(data, "study_consistency")),
               Normalized(FromInt(Get(data, "daily_study_time")), FullScale("daily_study_time")) >>
      [] type = "general" ->
            << FromInt(Get(data, "physical_stamina")),
               Normalized(Get(data, "sleep_before_games"), FullScale("sleep_before_games")) >>
      [] OTHER -> << >>

calculate_section_score(data, type) == MeanOrDefault(Scores(data, type))

-----------------------------------------------------------------------------
(* The score engine on sampled inputs. *)

\* Sampled values of a numeric field.
FieldValues(field) ==
    CASE field = "preparation_depth" ->
            {1, 10} \cup {20 + i : i \in 0..MaxOver}
      [] field = "focus_duration" ->
            {1, 10, 30} \cup {60 + 60 * i : i \in 0..MaxOver}
      [] field = "daily_study_time" ->
            {1, 10, 60} \cup {120 + 60 * i : i \in 0..MaxOver}
      [] field = "sleep_before_games" ->
            {FromInt(1), FromInt(4)} \cup {Rat(16 + i, 2) : i \in 0..MaxOver}
      [] field \in {"opening_study_time", "middlegame_study_time",
                    "endgame_study_time"} -> {90}
      [] OTHER -> {1, 5, 10}

\* Every dict over a subset of `fields`, each present field at a sampled value.
RECURSIVE Dicts(_)
Dicts(fields) ==
    IF fields = {} THEN { << >> }
    ELSE LET k == CHOOSE f \in fields : TRUE
             rest == Dicts(fields \ {k})
         IN  rest \cup { (k :> v) @@ d : d \in rest, v \in FieldValues(k) }

SectionFields(type) == RatingFields(type) \cup ScaledFields(type)

SectionInputs(type) ==
    Dicts(SectionFields(type) \cup StudyTimeFields(type))

\* The section tags the calculator is called with: the six and an unknown one.
SectionTags == SectionNames \cup {"tactics"}

IdleScore == section_type = "opening" /\ section_data = << >> /\ score = << >>
IdleAnalyze == assessment = << >> /\ analysis = << >>
IdleStore ==
    /\ assessments = << >>
    /\ insert_result = "none"
    /\ response = [route |-> "none", status_code |-> 0, body |-> "none"]
IdleCoach == coaches = << >> /\ reg = << >>

InitScore ==
    /\ section_type \in SectionTags
    /\ section_data \in SectionInputs(section_type)
    /\ score = << >>
    /\ IdleAnalyze /\ IdleStore /\ IdleCoach /\ clock = 0

\* score = calculate_section_score(section_data, section_type)
ScoreSection ==
    /\ score = << >>
    /\ score' = << calculate_section_score(section_data, section_type) >>
    /\ UNCHANGED <<section_type, section_data>>
    /\ UNCHANGED <<analyzeVars, storeVars, coachVars, clock>>

NextScore == ScoreSection

SpecScore == InitScore /\ [][NextScore]_vars

-----------------------------------------------------------------------------
(* Properties of calculate_section_score, over SpecScore. *)

Scored == score # << >>
Result == score[1]

\* A field's value as a rational.
AsRat(field, v) == IF field = "sleep_before_games" THEN v ELSE FromInt(v)

\* Every rating field of the section is in the dict with the value r.
AllRatingsAre(r) ==
    \A f \in RatingFields(section_type) :
        f \in DOMAIN section_data /\ section_data[f] = r

\* The least value of a differently-scaled field: preparation_depth is
\* documented as 1-20; minutes and hours are taken from 1.
ScaledMinimum(field) == IF field = "sleep_before_games" THEN FromInt(1) ELSE 1

ScaledAtMinimum ==
    \A f \in ScaledFields(section_type) :
        f \in DOMAIN section_data /\ section_data[f] = ScaledMinimum(f)

\* The section's differently-scaled field is present and >= its threshold.
ScaledSaturated ==
    \A f \in ScaledFields(section_type) :
        /\ f \in DOMAIN section_data
        /\ RLe(FromInt(FullScale(f)), AsRat(f, section_data[f]))

\* C1: for each of the six categories, a sub-record with every rating field 1
\* and every differently-scaled field at its minimum scores exactly 1.0.
C1_AllOnesScoreOne ==
    (Scored /\ section_type \in SectionNames /\ AllRatingsAre(1) /\ ScaledAtMinimum)
        => Result = FromInt(1)

\* C4 as stated: ratings all 10 and every differently-scaled field at or
\* above its threshold (preparation_depth 20 included) scores exactly 10.0.
C4_Original ==
    (Scored /\ section_type \in SectionNames /\ AllRatingsAre(10) /\ ScaledSaturated)
        => Result = FromInt(10)

\* C4 amended: for each of the six categories, ratings all 10, preparation_depth
\* exactly 20 and focus_duration >= 60, daily_study_time >= 120,
\* sleep_before_games >= 8 score exactly 10.0.
C4_AllTensScoreTen ==
    ( /\ Scored /\ section_type \in SectionNames
      /\ AllRatingsAre(10) /\ ScaledSaturated
      /\ (section_type = "opening" => section_data["preparation_depth"] = 20) )
        => Result = FromInt(10)

C4_Witness ==
    /\ Scored /\ section_type = "general"
    /\ AllRatingsAre(10) /\ ScaledSaturated
    /\ RLt(FromInt(8), section_data["sleep_before_games"])
    /\ Result = FromInt(10)

\* The sub-record with each left-out contributing field at its declared default.
WithDeclaredDefaults(data, type) ==
    [f \in DOMAIN data \cup SectionFields(type) |->
        IF f \in DOMAIN data THEN data[f] ELSE DeclaredDefault(f)]

\* C6: whatever contributing fields a sub-record leaves out, the calculator
\* returns a score, the one of the sub-record with each left-out field set to
\* the default its model declares.
C6_MissingFieldsDefault ==
    (Scored /\ section_type \in SectionNames)
        => Result = calculate_section_score(
                        WithDeclaredDefaults(section_data, section_type), section_type)

C6_Witness ==
    /\ Scored /\ section_type = "psychology"
    /\ "focus_duration" \notin DOMAIN section_data
    /\ "motivation_level" \notin DOMAIN section_data
    /\ "confidence_level" \in DOMAIN section_data
    /\ section_data["confidence_level"] = 10

\* What the differently-scaled field contributed to the returned mean:
\* result * len(scores) - the rating fields.
RECURSIVE SumRatings(_)
SumRatings(fields) ==
    IF fields = {} THEN 0
    ELSE LET f == CHOOSE g \in fields : TRUE
         IN  Get(section_data, f) + SumRatings(fields \ {f})

Contribution ==
    LET k == Cardinality(RatingFields(section_type)) + 1
    IN  RAdd(RMul(Result, k), FromInt(0 - SumRatings(RatingFields(section_type))))

\* The sub-record with its differently-scaled field set to the threshold.
AtThreshold(data, type) ==
    [f \in DOMAIN data |->
        IF f \in ScaledFields(type) THEN
            (IF f = "sleep_before_games" THEN FromInt(FullScale(f)) ELSE FullScale(f))
        ELSE data[f]]

ClampedSections == {"psychology", "study_habits", "general"}

\* C7: with the other fields fixed, every focus_duration >= 60 gives the
\* psychology score of focus_duration = 60, its contribution being 10; likewise
\* daily_study_time >= 120 and sleep_before_games >= 8; and no clamped
\* contribution exceeds 10.
C7_NormalizationSaturates ==
    (Scored /\ section_type \in ClampedSections) =>
        /\ RLe(Contribution, FromInt(10))
        /\ ScaledSaturated =>
              /\ Contribution = FromInt(10)
              /\ Result = calculate_section_score(
                              AtThreshold(section_data, section_type), section_type)

C7_Witness ==
    /\ Scored /\ section_type = "psychology"
    /\ "focus_duration" \in DOMAIN section_data
    /\ section_data["focus_duration"] = 120
    /\ Contribution = FromInt(10)

-----------------------------------------------------------------------------
(* analyze_assessment *)

\* The characters of the six section names (a Python str is a character
\* sequence; TLA+ strings are atomic, so replace() and title() work on these).
Chars(section) ==
    CASE section = "opening"      -> <<"o","p","e","n","i","n","g">>
      [] section = "middlegame"   -> <<"m","i","d","d","l","e","g","a","m","e">>
      [] section = "endgame"      -> <<"e","n","d","g","a","m","e">>
      [] section = "psychology"   -> <<"p","s","y","c","h","o","l","o","g","y">>
      [] section = "study_habits" -> <<"s","t","u","d","y","_","h","a","b","i","t","s">>
      [] section = "general"      -> <<"g","e","n","e","r","a","l">>

LowerCase == <<"a","b","c","d","e","f","g","h","i","j","k","l","m",
               "n","o","p","q","r","s","t","u","v","w","x","y","z">>
UpperCase == <<"A","B","C","D","E","F","G","H","I","J","K","L","M",
               "N","O","P","Q","R","S","T","U","V","W","X","Y","Z">>

IsLower(c) == \E i \in 1..Len(LowerCase) : LowerCase[i] = c
IsUpper(c) == \E i \in 1..Len(UpperCase) : UpperCase[i] = c
IsCased(c) == IsLower(c) \/ IsUpper(c)

\* c.upper(), c.lower() for one character
Upper(c) ==
    IF IsLower(c) THEN UpperCase[CHOOSE i \in 1..Len(LowerCase) : LowerCase[i] = c] ELSE c
Lower(c) ==
    IF IsUpper(c) THEN LowerCase[CHOOSE i \in 1..Len(UpperCase) : UpperCase[i] = c] ELSE c

\* str.replace(old, new) for single characters
replace(str, old, new) ==
    [i \in 1..Len(str) |-> IF str[i] = old THEN new ELSE str[i]]

\* str.title(): a cased character is upper-cased when it follows an uncased
\* one (or starts the string) and lower-cased otherwise.
title(str) ==
    [i \in 1..Len(str) |->
        IF i = 1 \/ ~IsCased(str[i - 1]) THEN Upper(str[i]) ELSE Lower(str[i])]

\* section.replace('_', ' ').title()
DisplayName(section) == title(replace(Chars(section), "_", " "))

\* A slip that flips the comparison.
IsCriticalFlipped(s) == RLe(FromInt(3), s)
\* A slip that makes the comparison strict.
IsCriticalStrict(s) == RLt(s, FromInt(3))

\* score <= 3
IsCritical(s) == RLe(s, FromInt(3))
\* score >= 8
IsStrength(s) == RLe(FromInt(8), s)

\* The loop of analyze_assessment from the i-th section on; acc holds
\* section_scores (a dict and its keys in insertion order), critical_areas
\* and strengths.
RECURSIVE AnalyzeLoop(_, _, _)
AnalyzeLoop(a, i, acc) ==
    IF i > Len(sections) THEN acc
    ELSE LET section == sections[i] IN
         IF section \in DOMAIN a THEN
            LET sc == calculate_section_score(a[section], section)
                acc1 == [acc EXCEPT !.section_scores = (section :> sc) @@ @,
                                    !.keys = Append(@, section)]
                acc2 == IF IsCritical(sc) THEN
                            [acc1 EXCEPT !.critical_areas = Append(@, DisplayName(section))]
                        ELSE IF IsStrength(sc) THEN
                            [acc1 EXCEPT !.strengths = Append(@, DisplayName(section))]
                        ELSE acc1
            IN  AnalyzeLoop(a, i + 1, acc2)
         ELSE AnalyzeLoop(a, i + 1, acc)

\* section_scores.values(), in insertion order
Values(acc) == [i \in 1..Len(acc.keys) |-> acc.section_scores[acc.keys[i]]]

\* A slip that divides by the number of sections, not of computed scores.
OverallOverSix(acc) == RDiv(RSum(Values(acc)), Len(sections))

\* sum(section_scores.values()) / len(section_scores) if section_scores else 1.0
Overall(acc) == MeanOrDefault(Values(acc))

analyze_assessment(a) ==
    LET acc == AnalyzeLoop(a, 1, [section_scores |-> << >>, keys |-> << >>,
                                  critical_areas |-> << >>, strengths |-> << >>])
    IN  [overall_score  |-> Overall(acc),
         section_scores |-> acc.section_scores,
         critical_areas |-> acc.critical_areas,
         strengths      |-> acc.strengths]

-----------------------------------------------------------------------------
(* The analyzer on sampled records. *)

\* The value of a differently-scaled field that normalizes to `level`.
ScaledAtLevel(field, level) ==
    IF field = "sleep_before_games" THEN Rat(FullScale(field) * level, 10)
    ELSE (FullScale(field) * level) \div 10

\* A full sub-record: rating fields at a, the differently-scaled field at b.
LevelRecord(section, a, b) ==
    [f \in SectionFields(section) |->
        IF f \in ScaledFields(section) THEN ScaledAtLevel(f, b) ELSE a]

Levels == {2, 5, 8}

AnalyzerSectionInputs(section) ==
    { LevelRecord(section, a, b) : a \in Levels, b \in Levels }

\* Records with any subset of the six sections, beside the record's own keys.
RECURSIVE AssessmentDicts(_)
AssessmentDicts(names) ==
    IF names = {} THEN { ("player_name" :> "p") }
    ELSE LET k == CHOOSE s \in names : TRUE
             rest == AssessmentDicts(names \ {k})
         IN  rest \cup { (k :> v) @@ d : d \in rest, v \in AnalyzerSectionInputs(k) }

InitAnalyze ==
    /\ assessment \in AssessmentDicts(SectionNames)
    /\ analysis = << >>
    /\ IdleScore /\ IdleStore /\ IdleCoach /\ clock = 0

\* analysis = analyze_assessment(assessment)
Analyze ==
    /\ analysis = << >>
    /\ analysis' = << analyze_assessment(assessment) >>
    /\ UNCHANGED assessment
    /\ UNCHANGED <<scoreVars, storeVars, coachVars, clock>>

NextAnalyze == Analyze

SpecAnalyze == InitAnalyze /\ [][NextAnalyze]_vars

-----------------------------------------------------------------------------
(* Properties of analyze_assessment, over SpecAnalyze. *)

Analysed == analysis # << >>
Summary == analysis[1]

Present == {s \in SectionNames : s \in DOMAIN assessment}

SectionScore(s) == calculate_section_score(assessment[s], s)

\* The display names the documentation lists.
ExpectedName(section) ==
    CASE section = "opening"      -> <<"O","p","e","n","i","n","g">>
      [] section = "middlegame"   -> <<"M","i","d","d","l","e","g","a","m","e">>
      [] section = "endgame"      -> <<"E","n","d","g","a","m","e">>
      [] section = "psychology"   -> <<"P","s","y","c","h","o","l","o","g","y">>
      [] section = "study_habits" -> <<"S","t","u","d","y"," ","H","a","b","i","t","s">>
      [] section = "general"      -> <<"G","e","n","e","r","a","l">>

ExpectedNames(secs) == [i \in 1..Len(secs) |-> ExpectedName(secs[i])]

AtMostThree(s) == s \in Present /\ RLe(SectionScore(s), FromInt(3))
AtLeastEight(s) == s \in Present /\ RLe(FromInt(8), SectionScore(s))

\* C2: critical_areas holds, in the fixed section order, the display names of
\* exactly the present sections scoring <= 3, strengths those of exactly the
\* present sections scoring >= 8, and no name is in both lists.
C2_Labels ==
    Analysed =>
        /\ Summary.critical_areas = ExpectedNames(SelectSeq(sections, AtMostThree))
        /\ Summary.strengths = ExpectedNames(SelectSeq(sections, AtLeastEight))
        /\ \A i \in 1..Len(Summary.critical_areas) :
             \A j \in 1..Len(Summary.strengths) :
                Summary.critical_areas[i] # Summary.strengths[j]

C2_Witness ==
    /\ Analysed
    /\ Present = SectionNames
    /\ \A s \in SectionNames : SectionScore(s) = FromInt(2)
    /\ Summary.critical_areas = ExpectedNames(sections)
    /\ Summary.strengths = << >>

\* The sum of the section scores of a set of sections.
RECURSIVE SumOfScores(_)
SumOfScores(secs) ==
    IF secs = {} THEN FromInt(0)
    ELSE LET s == CHOOSE t \in secs : TRUE
         IN  RAdd(SectionScore(s), SumOfScores(secs \ {s}))

\* C3: overall_score is the unweighted mean of the section scores of exactly
\* the present sections; with no section present it is 1.0 and section_scores,
\* critical_areas and strengths are empty.
C3_OverallMean ==
    Analysed =>
        /\ DOMAIN Summary.section_scores = Present
        /\ \A s \in Present : Summary.section_scores[s] = SectionScore(s)
        /\ Present # {} =>
              RMul(Summary.overall_score, Cardinality(Present)) = SumOfScores(Present)
        /\ Present = {} =>
              /\ Summary.overall_score = FromInt(1)
              /\ Summary.critical_areas = << >>
              /\ Summary.strengths = << >>

C3_Witness ==
    /\ Analysed
    /\ Present = {}
    /\ Summary.overall_score = FromInt(1)
    /\ DOMAIN Summary.section_scores = {}

\* All six sections are present and score s.
UniformAt(s) ==
    /\ Present = SectionNames
    /\ \A t \in SectionNames : Summary.section_scores[t] = s

\* C5: when all six sections are present and each scores s with 3 < s < 8,
\* overall_score is s and critical_areas and strengths are empty.
C5_UniformMidrange ==
    Analysed =>
        \A t \in Present :
            LET s == Summary.section_scores[t] IN
            (UniformAt(s) /\ RLt(FromInt(3), s) /\ RLt(s, FromInt(8))) =>
                /\ Summary.overall_score = s
                /\ Summary.critical_areas = << >>
                /\ Summary.strengths = << >>

C5_Witness ==
    /\ Analysed
    /\ UniformAt(FromInt(5))
    /\ Summary.overall_score = FromInt(5)

-----------------------------------------------------------------------------
(* Values of the routes: datetimes, uuids, exceptions, responses. *)

\* datetime.now(timezone.utc) at tick t, and str(uuid.uuid4()) number t
datetime(t) == [datetime |-> t]
uuid4(t) == <<"uuid", t>>

\* datetime.isoformat() and datetime.fromisoformat()
isoformat(dt) == [iso |-> dt.datetime]
fromisoformat(str) == [datetime |-> str.iso]

\* The keys of the models whose values are datetimes.
DatetimeKeys == {"submission_date", "created_at"}

\* prepare_for_mongo: datetime values become ISO strings (the nested section
\* dicts hold no datetime and come back as they are).
prepare_for_mongo(data) ==
    [k \in DOMAIN data |->
        IF k \in DatetimeKeys /\ "datetime" \in DOMAIN data[k]
        THEN isoformat(data[k]) ELSE data[k]]

\* parse_from_mongo: ISO strings under submission_date / created_at become
\* datetimes again.
parse_from_mongo(data) ==
    [k \in DOMAIN data |->
        IF k \in DatetimeKeys /\ "iso" \in DOMAIN data[k]
        THEN fromisoformat(data[k]) ELSE data[k]]

Exception(message) == [http |-> FALSE, status_code |-> 0, detail |-> message]
HTTPException(code, message) == [http |-> TRUE, status_code |-> code, detail |-> message]

\* How the body of a try block ends.
Return(v) == [raised |-> FALSE, value |-> v]
Raise(e) == [raised |-> TRUE, exc |-> e]

\* except Exception as e: raise HTTPException(status_code=code, detail=prefix + str(e))
ExceptException(r, code, prefix) ==
    IF r.raised THEN Raise(HTTPException(code, <<prefix, r.exc.detail>>)) ELSE r

\* except HTTPException: raise
\* except Exception as e: raise HTTPException(status_code=code, detail=prefix + str(e))
ExceptReraiseHTTP(r, code, prefix) ==
    IF r.raised /\ ~r.exc.http
    THEN Raise(HTTPException(code, <<prefix, r.exc.detail>>)) ELSE r

\* The HTTP response FastAPI makes of a handler's return value or HTTPException.
Respond(route, r) ==
    [route       |-> route,
     status_code |-> IF r.raised THEN r.exc.status_code ELSE 200,
     body        |-> IF r.raised THEN r.exc.detail ELSE r.value]

-----------------------------------------------------------------------------
(* The db.assessments collection. *)

\* insert_one: the document is stored with a generated _id.
insert_one(coll, doc) == Append(coll, ("_id" :> <<"ObjectId", Len(coll) + 1>>) @@ doc)

\* The projection {"_id": 0}.
WithoutId(doc) == [k \in DOMAIN doc \ {"_id"} |-> doc[k]]

\* find({}, {"_id": 0})
find(coll) == [i \in 1..Len(coll) |-> WithoutId(coll[i])]

\* sort("submission_date", -1): descending, by insertion into a sorted list
RECURSIVE sort_desc(_)
sort_desc(docs) ==
    IF docs = << >> THEN << >>
    ELSE LET d == docs[Len(docs)]
             rest == sort_desc(SubSeq(docs, 1, Len(docs) - 1))
             before == SelectSeq(rest,
                         LAMBDA e : e.submission_date.iso >= d.submission_date.iso)
             after == SelectSeq(rest,
                         LAMBDA e : e.submission_date.iso < d.submission_date.iso)
         IN  before \o <<d>> \o after

ListLimit == 1000

\* to_list(length)
to_list(docs, length) ==
    IF Len(docs) > length THEN SubSeq(docs, 1, length) ELSE docs

\* find_one({"id": id}, {"_id": 0}): the first match, as <<doc>>, or << >> (None)
find_one(coll, id) ==
    LET hits == SelectSeq(coll, LAMBDA d : d.id = id)
    IN  IF hits = << >> THEN << >> ELSE << WithoutId(hits[1]) >>

-----------------------------------------------------------------------------
(* The assessment routes. *)

PlayerAssessmentFields == {"id", "player_name", "submission_date"} \cup SectionNames

\* PlayerAssessment(**data): the model's fields of data; id and
\* submission_date come from the default factories when data has none.
PlayerAssessment(data, t) ==
    [k \in PlayerAssessmentFields |->
        IF k \in DOMAIN data THEN data[k]
        ELSE IF k = "id" THEN uuid4(t) ELSE datetime(t)]

\* A validated section model: every numeric field is set.
FullSection(section, level) ==
    [f \in SectionFields(section) \cup StudyTimeFields(section) |->
        IF f \in StudyTimeFields(section) THEN DeclaredDefault(f)
        ELSE IF f \in ScaledFields(section) THEN ScaledAtLevel(f, level)
        ELSE level]

\* PlayerAssessmentCreate payloads.
Payload(name, low, high) ==
    [k \in {"player_name"} \cup SectionNames |->
        IF k = "player_name" THEN name
        ELSE IF k \in {"opening", "middlegame", "endgame"} THEN FullSection(k, low)
        ELSE FullSection(k, high)]

Payloads == { Payload(name, 2, high) : name \in {"ann", "ben"}, high \in {2, 8} }

\* What insert_one does: returns a result with an inserted_id, returns a
\* result whose inserted_id is falsy, or raises.
InsertOutcomes == {"inserted", "no_id", "raised"}

\* The try block of create_assessment, after insert_one ended with `outcome`.
TryCreate(new, outcome) ==
    IF outcome = "raised" THEN Raise(Exception("insert_one failed"))
    ELSE IF outcome = "inserted" THEN Return(new)
    ELSE Raise(HTTPException(500, "Failed to create assessment"))

create_assessment ==
    /\ clock < MaxStore
    /\ \E assessment_data \in Payloads, outcome \in InsertOutcomes :
         LET new == PlayerAssessment(assessment_data, clock + 1)
             assessment_dict == prepare_for_mongo(new)
         IN  /\ clock' = clock + 1
             /\ insert_result' = outcome
             /\ assessments' = IF outcome = "raised" THEN assessments
                               ELSE insert_one(assessments, assessment_dict)
             /\ response' = Respond("create_assessment",
                                ExceptException(TryCreate(new, outcome), 400,
                                                "Error creating assessment: "))
    /\ UNCHANGED <<scoreVars, analyzeVars, coachVars>>

\* The try block of get_all_assessments.
TryGetAll(db_up) ==
    IF ~db_up THEN Raise(Exception("find failed"))
    ELSE LET docs == to_list(sort_desc(find(assessments)), ListLimit)
         IN  Return([i \in 1..Len(docs) |->
                        PlayerAssessment(parse_from_mongo(docs[i]), clock)])

get_all_assessments ==
    /\ \E db_up \in BOOLEAN :
         response' = Respond("get_all_assessments",
                         ExceptException(TryGetAll(db_up), 500,
                                         "Error fetching assessments: "))
    /\ UNCHANGED <<assessments, insert_result, clock>>
    /\ UNCHANGED <<scoreVars, analyzeVars, coachVars>>

\* The try block of get_assessment.
TryGet(assessment_id, db_up) ==
    IF ~db_up THEN Raise(Exception("find_one failed"))
    ELSE LET found == find_one(assessments, assessment_id)
         IN  IF found = << >> THEN Raise(HTTPException(404, "Assessment not found"))
             ELSE Return(PlayerAssessment(parse_from_mongo(found[1]), clock))

get_assessment ==
    /\ \E assessment_id \in {uuid4(t) : t \in 1..(MaxStore + 1)}, db_up \in BOOLEAN :
         response' = Respond("get_assessment",
                         ExceptReraiseHTTP(TryGet(assessment_id, db_up), 500,
                                           "Error fetching assessment: "))
    /\ UNCHANGED <<assessments, insert_result, clock>>
    /\ UNCHANGED <<scoreVars, analyzeVars, coachVars>>

\* The summary dict built for one stored assessment.
SummaryOf(doc) ==
    LET parsed_assessment == parse_from_mongo(doc)
        result == analyze_assessment(parsed_assessment)
    IN  [assessment_id   |-> parsed_assessment["id"],
         player_name     |-> parsed_assessment["player_name"],
         submission_date |-> parsed_assessment["submission_date"],
         overall_score   |-> result.overall_score,
         section_scores  |-> result.section_scores,
         critical_areas  |-> result.critical_areas,
         strengths       |-> result.strengths]

\* The try block of get_assessments_summary.
TrySummary(db_up) ==
    IF ~db_up THEN Raise(Exception("find failed"))
    ELSE LET docs == to_list(sort_desc(find(assessments)), ListLimit)
         IN  Return([i \in 1..Len(docs) |-> SummaryOf(docs[i])])

\* A slip that saves each summary into the collection.
get_assessments_summary_persisting ==
    /\ \E db_up \in BOOLEAN :
         LET r == TrySummary(db_up) IN
         /\ response' = Respond("get_assessments_summary",
                            ExceptException(r, 500, "Error generating summaries: "))
         /\ assessments' = IF r.raised THEN assessments ELSE assessments \o r.value
    /\ UNCHANGED <<insert_result, clock>>
    /\ UNCHANGED <<scoreVars, analyzeVars, coachVars>>

get_assessments_summary ==
    /\ \E db_up \in BOOLEAN :
         response' = Respond("get_assessments_summary",
                         ExceptException(TrySummary(db_up), 500,
                                         "Error generating summaries: "))
    /\ UNCHANGED <<assessments, insert_result, clock>>
    /\ UNCHANGED <<scoreVars, analyzeVars, coachVars>>

InitStore ==
    /\ IdleStore /\ clock = 0
    /\ IdleScore /\ IdleAnalyze /\ IdleCoach

NextStore ==
    \/ create_assessment
    \/ get_all_assessments
    \/ get_assessment
    \/ get_assessments_summary

SpecStore == InitStore /\ [][NextStore]_vars

-----------------------------------------------------------------------------
(* Properties of the assessment routes, over SpecStore. *)

ReadRoutes == {"get_all_assessments", "get_assessment", "get_assessments_summary"}

\* The keys of a stored assessment document.
StoredFields == PlayerAssessmentFields \cup {"_id"}

\* C8: every stored assessment stays in the store unchanged: a step adds at
\* most one document (create_assessment), the read and summary routes leave
\* the collection as it is, and nothing but assessment documents is stored.
C8_StoreIsAppendOnly ==
    [][ /\ Len(assessments') \in {Len(assessments), Len(assessments) + 1}
        /\ \A i \in 1..Len(assessments) : assessments'[i] = assessments[i]
        /\ response'.route \in ReadRoutes => assessments' = assessments
        /\ \A i \in 1..Len(assessments') : DOMAIN assessments'[i] = StoredFields
      ]_vars

C8_Witness ==
    /\ Len(assessments) >= 2
    /\ response.route = "get_assessments_summary"
    /\ response.status_code = 200
    /\ Len(response.body) = Len(assessments)

\* C10: when insert_one reports no inserted id, create_assessment answers 500.
C10_NoInsertedIdIs500 ==
    (response.route = "create_assessment" /\ insert_result = "no_id")
        => response.status_code = 500

-----------------------------------------------------------------------------
(* register_coach: each request runs up to its first await (find_one), is *)
(* suspended, and runs on to its second await (insert_one); the event loop *)
(* may run other requests in between.                                      *)

Requests == 1..MaxRequests

Usernames == {"alice", "bob"}
Passwords == {"pw1", "pw2"}

\* hash_password: a bcrypt hash of the password (salt left out)
hash_password(password) == [bcrypt |-> password]

\* Coach(username=..., password_hash=...), id and created_at from the factories
Coach(username, password_hash, t) ==
    [id |-> uuid4(t), username |-> username, password_hash |-> password_hash,
     created_at |-> datetime(t)]

\* db.coaches.find_one({"username": username}): <<doc>> or << >> (None)
find_coach(username) ==
    LET hits == SelectSeq(coaches, LAMBDA c : c.username = username)
    IN  IF hits = << >> THEN << >> ELSE << hits[1] >>

IdleRequest == [pc |-> "idle"]

\* The request arrives and find_one runs; the handler goes on to the call of
\* insert_one, or raises 400 when the username was found.
register_find(r) ==
    /\ reg[r].pc = "idle"
    /\ \E username \in Usernames, password \in Passwords :
         LET existing_coach == find_coach(username) IN
         IF existing_coach # << >> THEN
            /\ reg' = [reg EXCEPT ![r] =
                  [pc |-> "done",
                   response |-> Respond("register_coach",
                       ExceptReraiseHTTP(
                           Raise(HTTPException(400, "Username already exists")),
                           400, "Error registering coach: "))]]
            /\ UNCHANGED clock
         ELSE
            /\ reg' = [reg EXCEPT ![r] =
                  [pc |-> "await_insert",
                   coach |-> Coach(username, hash_password(password), clock + 1)]]
            /\ clock' = clock + 1
    /\ UNCHANGED coaches
    /\ UNCHANGED <<scoreVars, analyzeVars, storeVars>>

\* The try block of register_coach, after insert_one ended with `outcome`.
TryRegister(coach, outcome) ==
    IF outcome = "raised" THEN Raise(Exception("insert_one failed"))
    ELSE IF outcome = "inserted" THEN Return(coach)
    ELSE Raise(HTTPException(500, "Failed to register coach"))

\* insert_one runs and the handler finishes.
register_insert(r) ==
    /\ reg[r].pc = "await_insert"
    /\ \E outcome \in InsertOutcomes :
         LET coach_dict == prepare_for_mongo(reg[r].coach) IN
         /\ coaches' = IF outcome = "raised" THEN coaches
                       ELSE insert_one(coaches, coach_dict)
         /\ reg' = [reg EXCEPT ![r] =
               [pc |-> "done",
                response |-> Respond("register_coach",
                    ExceptReraiseHTTP(TryRegister(reg[r].coach, outcome),
                                      400, "Error registering coach: "))]]
    /\ UNCHANGED clock
    /\ UNCHANGED <<scoreVars, analyzeVars, storeVars>>

InitCoach ==
    /\ coaches = << >>
    /\ reg = [r \in Requests |-> IdleRequest]
    /\ clock = 0
    /\ IdleScore /\ IdleAnalyze /\ IdleStore

NextCoach == \E r \in Requests : register_find(r) \/ register_insert(r)

SpecCoach == InitCoach /\ [][NextCoach]_vars

-----------------------------------------------------------------------------
(* Properties of register_coach, over SpecCoach. *)

\* C9: the coaches collection never holds two documents with one username.
C9_UsernamesUnique ==
    \A i, j \in 1..Len(coaches) :
        i # j => coaches[i].username # coaches[j].username

====
